---- MODULE Spec2Model ----
(***************************************************************************)
(* Starlord's GridInterpolator (cy_tools.pyx): construction of the         *)
(* strided store, the per-axis point locator and the 1-D..5-D multilinear  *)
(* blend.                                                                  *)
(*                                                                         *)
(* Numbers.  The program computes in IEEE doubles.  The model keeps the    *)
(* same arithmetic at reduced precision: a finite double is an integer     *)
(* count of granules of 2^-FracBits, sums and differences are exact, and   *)
(* a product or a quotient is rounded to the nearest granule (ties to      *)
(* even), as the hardware rounds to the nearest double.  NaN and the two   *)
(* infinities are three reserved codes outside the finite range.           *)
(***************************************************************************)
EXTENDS Integers, Sequences, FiniteSets, TLC

FracBits == 10

Q == 2 ^ FracBits

NAN == 2 ^ 30

INFINITY == 2 ^ 29

\* A local that was never written.
UNSET == 2 ^ 30 + 1

\* What a read outside a buffer yields: an IndexError, or whatever lies there.
OOB == 2 ^ 30 + 2

\* A call that does not return.
HANG == 2 ^ 30 + 3

\* (int) of a NaN is undefined in C: the build yields INT_MIN (x86) or 0 (ARM).
INT_MIN == -(2 ^ 30) - 2 ^ 30

NanCasts == {INT_MIN, 0}

isnan(x) == x = NAN

isfinite(x) == x # NAN /\ x # INFINITY /\ x # -INFINITY

Abs(x) == IF x < 0 THEN -x ELSE x

\* n / d for d > 0, rounded to the nearest integer, ties to even.
RoundDiv(n, d) ==
    LET q == n \div d
        r == n % d
    IN  IF 2 * r < d THEN q
        ELSE IF 2 * r > d THEN q + 1
        ELSE IF q % 2 = 0 THEN q ELSE q + 1

\* The double nearest to the rational n/d.
Num(n, d) == RoundDiv(n * Q, d)

isinf(x) == x = INFINITY \/ x = -INFINITY

fneg(a) == IF a = OOB \/ isnan(a) THEN a ELSE -a

fadd(a, b) ==
    IF a = OOB \/ b = OOB THEN OOB
    ELSE IF isnan(a) \/ isnan(b) THEN NAN
    ELSE IF isinf(a) /\ isinf(b) THEN (IF a = b THEN a ELSE NAN)
    ELSE IF isinf(a) THEN a
    ELSE IF isinf(b) THEN b
    ELSE a + b

fsub(a, b) ==
    IF a = OOB \/ b = OOB THEN OOB
    ELSE IF isnan(a) \/ isnan(b) THEN NAN
    ELSE IF isinf(a) \/ isinf(b) THEN fadd(a, -b)
    ELSE a - b

fmul(a, b) ==
    IF a = OOB \/ b = OOB THEN OOB
    ELSE IF isnan(a) \/ isnan(b) THEN NAN
    ELSE IF isinf(a) \/ isinf(b)
    THEN (IF a = 0 \/ b = 0 THEN NAN
          ELSE IF (a > 0) = (b > 0) THEN INFINITY ELSE -INFINITY)
    ELSE RoundDiv(a * b, Q)

\* (int) x: truncation toward zero; cast is the build's answer for a NaN.
toint(x, cast) ==
    IF isnan(x) THEN cast
    ELSE IF x >= 0 THEN x \div Q ELSE -((-x) \div Q)

\* buf[k], k counted from 0.
rd(buf, k) == IF k >= 0 /\ k < Len(buf) THEN buf[k + 1] ELSE OOB

\* numpy float64 division: x/0 is an infinity or NaN, never an exception.
fdiv(a, b) ==
    IF isnan(a) \/ isnan(b) THEN NAN
    ELSE IF isinf(a) \/ isinf(b)
    THEN (IF isinf(a) /\ isinf(b) THEN NAN
          ELSE IF isinf(b) THEN 0
          ELSE IF (a > 0) = (b > 0) THEN INFINITY ELSE -INFINITY)
    ELSE IF b = 0 THEN (IF a = 0 THEN NAN ELSE IF a > 0 THEN INFINITY ELSE -INFINITY)
    ELSE IF b > 0 THEN RoundDiv(a * Q, b)
    ELSE RoundDiv(-(a * Q), -b)

\* Comparisons of doubles: every comparison with NaN is false.
flt(a, b) == ~isnan(a) /\ ~isnan(b) /\ a < b

fle(a, b) == ~isnan(a) /\ ~isnan(b) /\ a <= b

feq(a, b) == ~isnan(a) /\ ~isnan(b) /\ a = b

(***************************************************************************)
(* numpy, as __init__ uses it.                                             *)
(***************************************************************************)
Last(s) == s[Len(s)]

\* np.all(np.diff(ax) > 0.): vacuously true for fewer than two samples.
diff_all_positive(ax) == \A i \in 1..(Len(ax) - 1) : flt(0, fsub(ax[i + 1], ax[i]))

\* np.linspace(start, stop, num), endpoint included: arange(num)*step + start,
\* and the last sample overwritten by stop when num > 1.
linspace(start, stop, num) ==
    LET step == fdiv(fsub(stop, start), (num - 1) * Q)
    IN  [i \in 1..num |->
            IF num > 1 /\ i = num THEN stop
            ELSE IF num = 1 THEN start
            ELSE fadd(fmul((i - 1) * Q, step), start)]

\* The tolerance test without its relative term: np.absolute(a - l) <= tol.
within_tol_absolute(a, l, tol) == Abs(a - l) <= tol.num \div tol.den

\* np.absolute(a - l) <= tol + tol * np.absolute(l), for tol = num/den.
within_tol(a, l, tol) == Abs(a - l) <= (tol.num * (Q + Abs(l))) \div tol.den

\* The caller's value array: element idx (0-based multi-index) of the array
\* whose content follows pattern a.pat.  Pattern 1 is 10*i + j (+ 3k + 5l + 7m),
\* pattern 2 is not multilinear in the indices.
At(a, idx) ==
    LET c == <<10, 1, 3, 5, 7, 2>>
        RECURSIVE Lin(_), Sq(_)
        Lin(k) == IF k = 0 THEN 0 ELSE c[k] * idx[k] + Lin(k - 1)
        Sq(k) == IF k = 0 THEN 1 ELSE (2 * k + 1) * idx[k] * idx[k] + (idx[k] + 1) * Sq(k - 1)
    IN  IF a.pat = 1 THEN Lin(Len(idx)) * Q ELSE (Sq(Len(idx)) % 11) * Q

Prod(s) == LET RECURSIVE P(_)
               P(k) == IF k = 0 THEN 1 ELSE s[k] * P(k - 1)
           IN  P(Len(s))

\* The multi-index of the k-th element (k from 0) of a C-ordered array of this shape.
unravel(k, shape) ==
    [j \in 1..Len(shape) |-> (k \div Prod(SubSeq(shape, j + 1, Len(shape)))) % shape[j]]

\* ndarray.flatten(): the elements in row-major (C) order.
flatten(a) == [k \in 1..Prod(a.shape) |-> At(a, unravel(k - 1, a.shape))]

RECURSIVE concatenate(_)
concatenate(parts) ==
    IF parts = <<>> THEN <<>> ELSE Head(parts) \o concatenate(Tail(parts))

\* data[start:stop]
Slice(data, start, stop) == SubSeq(data, start + 1, stop)

(***************************************************************************)
(* The interpolator's fields (cy_tools.pxd), the caller's arrays, and the  *)
(* last query with its result.                                             *)
(***************************************************************************)
VARIABLES pc, err, ndim,
          x_len, y_len, z_len, u_len, v_len,
          x_stride, y_stride, z_stride, u_stride, v_stride,
          x_axis, y_axis, z_axis, u_axis, v_axis,
          values, _data,
          axes, arr, x, result,
          calls, frames, chain, heap

lens == <<x_len, y_len, z_len, u_len, v_len>>

strides == <<x_stride, y_stride, z_stride, u_stride, v_stride>>

slices == <<x_axis, y_axis, z_axis, u_axis, v_axis>>

fields == <<ndim, lens, strides, slices, values, _data>>

\* The calls in progress on other threads, the chain of dependent calls, and
\* the buffers in memory.
others == <<calls, frames, chain, heap>>

vars == <<pc, err, fields, axes, arr, x, result, others>>

MaxDim == 5

\* tol=1e-6, the default of __init__.
DefaultTol == [num |-> 1, den |-> 1000000]

\* The per-axis step of __init__'s loop over axes (lines 39-45): the error it
\* raises, or "none".
axis_error(ax, kind) ==
    IF ~diff_all_positive(ax) THEN "AssertionError"
    ELSE IF Len(ax) = 0 THEN "IndexError"
    ELSE IF Len(ax) = 1 /\ kind = "list" THEN "ZeroDivisionError"
    ELSE "none"

\* An axis is kept as [start, inverse step, 0.] when it is within tol of
\* np.linspace over the same end points, and as its samples otherwise.
is_uniform(ax, tol) ==
    LET lin == linspace(ax[1], Last(ax), Len(ax))
    IN  \A i \in 1..Len(ax) : within_tol(ax[i], lin[i], tol)

\* The encoding with the sample count kept in the third entry of a Uniform
\* slice: <<start, inverse step, n>>.
encode_keeps_count(ax, tol) ==
    IF is_uniform(ax, tol)
    THEN <<ax[1], fdiv((Len(ax) - 1) * Q, fsub(Last(ax), ax[1])), Len(ax) * Q>>
    ELSE ax

encode(ax, tol) ==
    IF is_uniform(ax, tol)
    THEN <<ax[1], fdiv((Len(ax) - 1) * Q, fsub(Last(ax), ax[1])), 0>>
    ELSE ax

\* Column-major strides: the first declared axis varies fastest.
stride_table_first_fastest(ls) ==
    <<1, ls[1], ls[1] * ls[2], ls[1] * ls[2] * ls[3], ls[1] * ls[2] * ls[3] * ls[4]>>

\* The strides <<x, y, z, u, v>> for the lengths <<x, y, z, u, v>> (lines 72-76).
stride_table(ls) ==
    LET vs == 1
        us == vs * ls[5]
        zs == us * ls[4]
        ys == zs * ls[3]
        xs == ys * ls[2]
    IN  <<xs, ys, zs, us, vs>>

\* assert self.ndim <= 5 (line 36).
ndim_check(n) == IF n > MaxDim THEN "AssertionError" ELSE "none"

\* len(axes[0]) (line 54) with no axis in the list.
first_axis_absent(n) == "none"

first_axis_error(n) == IF n = 0 THEN "IndexError" ELSE "none"

\* The constructor as it was before its last line was added.
count_check_absent(vals, st, ls) == "none"

\* assert len(self.values) == self.x_stride * self.x_len (line 78).
count_check(vals, st, ls) ==
    IF Len(vals) = st[1] * ls[1] THEN "none" ELSE "AssertionError"

\* GridInterpolator.__init__(axes, values, tol): the object it builds and the
\* error it raises ("none" when it returns normally).
init(axs, a, tol, kind) ==
    LET n == Len(axs)
        bad == {i \in 1..n : axis_error(axs[i], kind) # "none"}
        first == CHOOSE i \in bad : \A j \in bad : i <= j
        early == IF ndim_check(n) # "none" THEN ndim_check(n)
                 ELSE IF bad # {} THEN axis_error(axs[first], kind)
                 ELSE first_axis_error(n)
        processed == [i \in 1..n |-> encode(axs[i], tol)] \o <<flatten(a)>>
        data == concatenate(processed)
        RECURSIVE stop(_)
        stop(k) == IF k = 0 THEN 0 ELSE stop(k - 1) + Len(processed[k])
        len(k) == IF n >= k THEN Len(axs[k]) ELSE 1
        axis(k) == IF n >= k THEN Slice(data, stop(k - 1), stop(k)) ELSE <<>>
        ls == <<len(1), len(2), len(3), len(4), len(5)>>
        st == stride_table(ls)
        vals == Slice(data, stop(n), Len(data))
    IN  IF early # "none" THEN [err |-> early]
        ELSE [err |-> count_check(vals, st, ls),
              ndim |-> n,
              lens |-> ls,
              strides |-> st,
              slices |-> <<axis(1), axis(2), axis(3), axis(4), axis(5)>>,
              values |-> vals,
              data |-> data]

(***************************************************************************)
(* _locatePoint_: the index of the cell holding point and the weight of    *)
(* the cell's upper vertex, or a negative index.                           *)
(***************************************************************************)
\* The while loop of the Explicit branch (lines 224-229), entered with i, low
\* and high; fuel bounds the iterations the model follows.
\* The loop with its test closed at the upper vertex: a point on a sample may
\* leave it in the cell below.
RECURSIVE search_closed_cell(_, _, _, _, _, _)
search_closed_cell(point, axis, i, low, high, fuel) ==
    IF fle(rd(axis, i), point) /\ fle(point, rd(axis, i + 1)) THEN i
    ELSE IF fuel = 0 THEN HANG
    ELSE LET m == (low + high) \div 2
         IN  IF flt(rd(axis, m), point)
             THEN search_closed_cell(point, axis, m, m, high, fuel - 1)
             ELSE search_closed_cell(point, axis, m, low, m, fuel - 1)

RECURSIVE search(_, _, _, _, _, _)
search(point, axis, i, low, high, fuel) ==
    IF fle(rd(axis, i), point) /\ flt(point, rd(axis, i + 1)) THEN i
    ELSE IF fuel = 0 THEN HANG
    ELSE LET m == (low + high) \div 2
         IN  IF flt(rd(axis, m), point)
             THEN search(point, axis, m, m, high, fuel - 1)
             ELSE search(point, axis, m, low, m, fuel - 1)

\* _locatePoint_ as it was before the exact-maximum rule returned axLen-2: a
\* point at the maximum gets the last index of the stored slice.
_locatePoint_returns_high(point, axis, axLen, cast) ==
    IF ~isfinite(point) THEN [i |-> -1, w |-> UNSET]
    ELSE IF flt(rd(axis, 1), rd(axis, 2))
    THEN IF feq(point, Last(axis)) THEN [i |-> Len(axis) - 1, w |-> Q]
         ELSE IF flt(point, rd(axis, 0)) \/ flt(Last(axis), point)
         THEN [i |-> -1, w |-> UNSET]
         ELSE LET high == Len(axis) - 1
                  i == search(point, axis, (0 + high) \div 2, 0, high, 2 * Len(axis))
              IN  IF i = HANG THEN [i |-> HANG, w |-> UNSET]
                  ELSE [i |-> i,
                        w |-> fdiv(fsub(point, rd(axis, i)),
                                   fsub(rd(axis, i + 1), rd(axis, i)))]
    ELSE LET top == fadd(rd(axis, 0), fdiv((axLen - 1) * Q, rd(axis, 1)))
         IN  IF feq(point, top) THEN [i |-> Len(axis) - 1, w |-> Q]
             ELSE IF flt(point, rd(axis, 0)) \/ fle(top, point)
             THEN [i |-> -1, w |-> UNSET]
             ELSE LET weight == fmul(fsub(point, rd(axis, 0)), rd(axis, 1))
                      i == toint(weight, cast)
                  IN  [i |-> i, w |-> IF isnan(weight) THEN NAN ELSE fsub(weight, i * Q)]

_locatePoint_(point, axis, axLen, cast) ==
    IF ~isfinite(point) THEN [i |-> -1, w |-> UNSET]
    ELSE IF flt(rd(axis, 1), rd(axis, 2))
    THEN \* the axis is stored as its samples
         IF feq(point, Last(axis)) THEN [i |-> axLen - 2, w |-> Q]
         ELSE IF flt(point, rd(axis, 0)) \/ flt(Last(axis), point)
         THEN [i |-> -1, w |-> UNSET]
         ELSE LET high == Len(axis) - 1
                  i == search(point, axis, (0 + high) \div 2, 0, high, 2 * Len(axis))
              IN  IF i = HANG THEN [i |-> HANG, w |-> UNSET]
                  ELSE [i |-> i,
                        w |-> fdiv(fsub(point, rd(axis, i)),
                                   fsub(rd(axis, i + 1), rd(axis, i)))]
    ELSE \* the axis is stored as [start, inverse step, 0.]
         LET top == fadd(rd(axis, 0), fdiv((axLen - 1) * Q, rd(axis, 1)))
         IN  IF feq(point, top) THEN [i |-> axLen - 2, w |-> Q]
             ELSE IF flt(point, rd(axis, 0)) \/ fle(top, point)
             THEN [i |-> -1, w |-> UNSET]
             ELSE LET weight == fmul(fsub(point, rd(axis, 0)), rd(axis, 1))
                      i == toint(weight, cast)
                  IN  [i |-> i, w |-> IF isnan(weight) THEN NAN ELSE fsub(weight, i * Q)]

(***************************************************************************)
(* The blend routines.  A routine returns NAN when a locate failed, HANG   *)
(* when a locate did not return, and otherwise the nested linear           *)
(* interpolations of the source, statement by statement.                   *)
(***************************************************************************)
\* _unit_interp3 without its "s -= ys": the fourth pair of corners is read
\* where the third was.
_unit_interp3_keeps_ys(vals, s, xs, ys, zs, xw, yw, zw) ==
    LET zwc == fsub(Q, zw)
        a1 == fadd(fmul(zwc, rd(vals, s)), fmul(zw, rd(vals, s + zs)))
        s1 == s + ys
        b1 == fadd(fmul(zwc, rd(vals, s1)), fmul(zw, rd(vals, s1 + zs)))
        c == fadd(fmul(fsub(Q, yw), a1), fmul(yw, b1))
        s2 == s1 + xs
        b2 == fadd(fmul(zwc, rd(vals, s2)), fmul(zw, rd(vals, s2 + zs)))
        a2 == fadd(fmul(zwc, rd(vals, s2)), fmul(zw, rd(vals, s2 + zs)))
    IN  fadd(fmul(fsub(Q, xw), c),
             fmul(xw, fadd(fmul(fsub(Q, yw), a2), fmul(yw, b2))))

\* _unit_interp3 collapsing its first axis first and its last axis last.
_unit_interp3_slowest_first(vals, s, xs, ys, zs, xw, yw, zw) ==
    LET xwc == fsub(Q, xw)
        a1 == fadd(fmul(xwc, rd(vals, s)), fmul(xw, rd(vals, s + xs)))
        s1 == s + ys
        b1 == fadd(fmul(xwc, rd(vals, s1)), fmul(xw, rd(vals, s1 + xs)))
        c == fadd(fmul(fsub(Q, yw), a1), fmul(yw, b1))
        s2 == s1 + zs
        b2 == fadd(fmul(xwc, rd(vals, s2)), fmul(xw, rd(vals, s2 + xs)))
        s3 == s2 - ys
        a2 == fadd(fmul(xwc, rd(vals, s3)), fmul(xw, rd(vals, s3 + xs)))
    IN  fadd(fmul(fsub(Q, zw), c),
             fmul(zw, fadd(fmul(fsub(Q, yw), a2), fmul(yw, b2))))

_unit_interp3(vals, s, xs, ys, zs, xw, yw, zw) ==
    LET zwc == fsub(Q, zw)
        a1 == fadd(fmul(zwc, rd(vals, s)), fmul(zw, rd(vals, s + zs)))
        s1 == s + ys
        b1 == fadd(fmul(zwc, rd(vals, s1)), fmul(zw, rd(vals, s1 + zs)))
        c == fadd(fmul(fsub(Q, yw), a1), fmul(yw, b1))
        s2 == s1 + xs
        b2 == fadd(fmul(zwc, rd(vals, s2)), fmul(zw, rd(vals, s2 + zs)))
        s3 == s2 - ys
        a2 == fadd(fmul(zwc, rd(vals, s3)), fmul(zw, rd(vals, s3 + zs)))
    IN  fadd(fmul(fsub(Q, xw), c),
             fmul(xw, fadd(fmul(fsub(Q, yw), a2), fmul(yw, b2))))

\* if (xi < 0) or (yi < 0) ...: return math.NAN
failed(locs) == \E k \in DOMAIN locs : locs[k].i # HANG /\ locs[k].i < 0

hung(locs) == \E k \in DOMAIN locs : locs[k].i = HANG

_interp1d(o, point, cast) ==
    LET xl == _locatePoint_(point, o.slices[1], o.lens[1], cast)
    IN  IF hung(<<xl>>) THEN HANG
        ELSE IF xl.i < 0 THEN NAN
        ELSE fadd(fmul(rd(o.values, xl.i), fsub(Q, xl.w)),
                  fmul(xl.w, rd(o.values, xl.i + 1)))

_interp2d(o, px, py, cast) ==
    LET xl == _locatePoint_(px, o.slices[1], o.lens[1], cast)
        yl == _locatePoint_(py, o.slices[2], o.lens[2], cast)
        s0 == xl.i * o.strides[1] + yl.i * o.strides[2]
        a == fadd(fmul(fsub(Q, yl.w), rd(o.values, s0)),
                  fmul(yl.w, rd(o.values, s0 + o.strides[2])))
        s1 == s0 + o.strides[1]
        b == fadd(fmul(fsub(Q, yl.w), rd(o.values, s1)),
                  fmul(yl.w, rd(o.values, s1 + o.strides[2])))
    IN  IF hung(<<xl, yl>>) THEN HANG
        ELSE IF failed(<<xl, yl>>) THEN NAN
        ELSE fadd(fmul(fsub(Q, xl.w), a), fmul(xl.w, b))

_interp3d(o, px, py, pz, cast) ==
    LET xl == _locatePoint_(px, o.slices[1], o.lens[1], cast)
        yl == _locatePoint_(py, o.slices[2], o.lens[2], cast)
        zl == _locatePoint_(pz, o.slices[3], o.lens[3], cast)
        s0 == xl.i * o.strides[1] + yl.i * o.strides[2] + zl.i * o.strides[3]
    IN  IF hung(<<xl, yl, zl>>) THEN HANG
        ELSE IF failed(<<xl, yl, zl>>) THEN NAN
        ELSE _unit_interp3(o.values, s0, o.strides[1], o.strides[2], o.strides[3],
                           xl.w, yl.w, zl.w)

_interp4d(o, px, py, pz, pu, cast) ==
    LET xl == _locatePoint_(px, o.slices[1], o.lens[1], cast)
        yl == _locatePoint_(py, o.slices[2], o.lens[2], cast)
        zl == _locatePoint_(pz, o.slices[3], o.lens[3], cast)
        ul == _locatePoint_(pu, o.slices[4], o.lens[4], cast)
        s0 == xl.i * o.strides[1] + yl.i * o.strides[2] + zl.i * o.strides[3]
              + ul.i * o.strides[4]
        a == _unit_interp3(o.values, s0, o.strides[2], o.strides[3], o.strides[4],
                           yl.w, zl.w, ul.w)
        s1 == s0 + o.strides[1]
        b == _unit_interp3(o.values, s1, o.strides[2], o.strides[3], o.strides[4],
                           yl.w, zl.w, ul.w)
    IN  IF hung(<<xl, yl, zl, ul>>) THEN HANG
        ELSE IF failed(<<xl, yl, zl, ul>>) THEN NAN
        ELSE fadd(fmul(fsub(Q, xl.w), a), fmul(xl.w, b))

_interp5d(o, px, py, pz, pu, pv, cast) ==
    LET xl == _locatePoint_(px, o.slices[1], o.lens[1], cast)
        yl == _locatePoint_(py, o.slices[2], o.lens[2], cast)
        zl == _locatePoint_(pz, o.slices[3], o.lens[3], cast)
        ul == _locatePoint_(pu, o.slices[4], o.lens[4], cast)
        vl == _locatePoint_(pv, o.slices[5], o.lens[5], cast)
        s0 == xl.i * o.strides[1] + yl.i * o.strides[2] + zl.i * o.strides[3]
              + ul.i * o.strides[4] + vl.i * o.strides[5]
        a1 == _unit_interp3(o.values, s0, o.strides[3], o.strides[4], o.strides[5],
                            zl.w, ul.w, vl.w)
        s1 == s0 + o.strides[2]
        b1 == _unit_interp3(o.values, s1, o.strides[3], o.strides[4], o.strides[5],
                            zl.w, ul.w, vl.w)
        c == fadd(fmul(fsub(Q, yl.w), a1), fmul(yl.w, b1))
        s2 == s1 + o.strides[1]
        b2 == _unit_interp3(o.values, s2, o.strides[3], o.strides[4], o.strides[5],
                            zl.w, ul.w, vl.w)
        s3 == s2 - o.strides[2]
        a2 == _unit_interp3(o.values, s3, o.strides[3], o.strides[4], o.strides[5],
                            zl.w, ul.w, vl.w)
    IN  IF hung(<<xl, yl, zl, ul, vl>>) THEN HANG
        ELSE IF failed(<<xl, yl, zl, ul, vl>>) THEN NAN
        ELSE fadd(fmul(c, fsub(Q, xl.w)),
                  fmul(xl.w, fadd(fmul(fsub(Q, yl.w), a2), fmul(yl.w, b2))))

\* GridInterpolator.interp(x): the dispatch on ndim.
interp(o, p, cast) ==
    IF o.ndim = 1 THEN _interp1d(o, p[1], cast)
    ELSE IF o.ndim = 2 THEN _interp2d(o, p[1], p[2], cast)
    ELSE IF o.ndim = 3 THEN _interp3d(o, p[1], p[2], p[3], cast)
    ELSE IF o.ndim = 4 THEN _interp4d(o, p[1], p[2], p[3], p[4], cast)
    ELSE IF o.ndim = 5 THEN _interp5d(o, p[1], p[2], p[3], p[4], p[5], cast)
    ELSE NAN

\* The built interpolator, as the record the routines read.
self == [ndim |-> ndim, lens |-> lens, strides |-> strides, slices |-> slices,
         values |-> values, data |-> _data]

(***************************************************************************)
(* The positions the routines read: of the values buffer in the blends,    *)
(* and of an axis slice in _locatePoint_.                                  *)
(***************************************************************************)
\* The eight reads of _unit_interp3 (lines 196-203), in the order of the
\* statements.
unit_reads(s, xs, ys, zs) ==
    {s, s + zs,
     s + ys, s + ys + zs,
     s + ys + xs, s + ys + xs + zs,
     s + ys + xs - ys, s + ys + xs - ys + zs}

\* The positions of values that interp(p) reads: none when a locate failed.
value_reads(o, p, cast) ==
    LET l == [k \in 1..o.ndim |-> _locatePoint_(p[k], o.slices[k], o.lens[k], cast)]
        RECURSIVE base(_)
        base(k) == IF k = 0 THEN 0 ELSE l[k].i * o.strides[k] + base(k - 1)
        s == base(o.ndim)
        st == o.strides
    IN  IF hung(l) \/ failed(l) THEN {}
        ELSE IF o.ndim = 1 THEN {l[1].i, l[1].i + 1}
        ELSE IF o.ndim = 2
        THEN {s, s + st[2], s + st[1], s + st[1] + st[2]}
        ELSE IF o.ndim = 3 THEN unit_reads(s, st[1], st[2], st[3])
        ELSE IF o.ndim = 4
        THEN unit_reads(s, st[2], st[3], st[4])
             \cup unit_reads(s + st[1], st[2], st[3], st[4])
        ELSE IF o.ndim = 5
        THEN unit_reads(s, st[3], st[4], st[5])
             \cup unit_reads(s + st[2], st[3], st[4], st[5])
             \cup unit_reads(s + st[2] + st[1], st[3], st[4], st[5])
             \cup unit_reads(s + st[2] + st[1] - st[2], st[3], st[4], st[5])
        ELSE {}

\* The positions of axis the while loop reads (lines 224-229).
RECURSIVE search_reads(_, _, _, _, _, _)
search_reads(point, axis, i, low, high, fuel) ==
    IF fle(rd(axis, i), point) /\ flt(point, rd(axis, i + 1)) THEN {i, i + 1}
    ELSE IF fuel = 0 THEN {i, i + 1}
    ELSE LET m == (low + high) \div 2
         IN  {i, i + 1, m}
             \cup (IF flt(rd(axis, m), point)
                   THEN search_reads(point, axis, m, m, high, fuel - 1)
                   ELSE search_reads(point, axis, m, low, m, fuel - 1))

\* The positions of axis that _locatePoint_(point, axis, axLen) reads; axis[-1]
\* is position Len(axis) - 1.
axis_reads(point, axis, axLen) ==
    LET high == Len(axis) - 1
    IN  IF ~isfinite(point) THEN {}
        ELSE IF flt(rd(axis, 1), rd(axis, 2))
        THEN {1, 2, high}
             \cup (IF feq(point, Last(axis)) THEN {}
                   ELSE IF flt(point, rd(axis, 0)) \/ flt(Last(axis), point)
                   THEN {0}
                   ELSE {0} \cup search_reads(point, axis, (0 + high) \div 2, 0,
                                              high, 2 * Len(axis)))
        ELSE {1, 2, 0}

(***************************************************************************)
(* The arguments the model draws.                                          *)
(***************************************************************************)
\* np.geomspace: num samples from start, each p/q times the one before.
RECURSIVE geomspace(_, _, _, _)
geomspace(start, p, q, num) ==
    IF num = 1 THEN <<start>>
    ELSE LET head == geomspace(start, p, q, num - 1)
         IN  Append(head, RoundDiv(Last(head) * p, q))

\* Axes a caller may pass: evenly spaced ones whose inverse step is exact
\* (1-3) or rounded (4-6), unevenly spaced ones (7-8), ones the spec
\* forbids (9-12), geometric ones of ratio 2 and of ratio 1.001 (13-14), and
\* longer unevenly spaced ones (15-17).
AxisPool ==
    << <<0, Q>>,
       <<0, Q, 2 * Q>>,
       <<-Q, 0, Q, 2 * Q>>,
       <<0, Num(3, 2), 3 * Q>>,
       <<0, 3 * Q>>,
       <<Q, Num(5, 2)>>,
       <<0, Q, 3 * Q>>,
       <<-Q, 0, 2 * Q, 3 * Q, Num(7, 2)>>,
       <<Q, Q>>,
       <<2 * Q, Q>>,
       <<Q>>,
       << >>,
       geomspace(Q, 2, 1, 4),
       geomspace(1000000, 1001, 1000, 4),
       <<0, Q, 3 * Q, 4 * Q, 6 * Q, 7 * Q>>,
       <<-2 * Q, 0, Q, 3 * Q, 4 * Q, 6 * Q, 7 * Q>>,
       <<0, Q, 3 * Q, 4 * Q, 6 * Q, 7 * Q, 9 * Q, 10 * Q, 12 * Q, 13 * Q>> >>

\* The axes offered at each position of a grid of this rank.
PoolFor(rank) ==
    IF rank <= 1 THEN 1..Len(AxisPool)
    ELSE IF rank = 2 THEN {1, 2, 4, 7, 9, 11}
    ELSE IF rank = 3 THEN {1, 7, 11}
    ELSE {1, 7}

Ranks == 0..(MaxDim + 1)

AxesChoices ==
    UNION {[1..r -> {AxisPool[i] : i \in PoolFor(r)}] : r \in Ranks}

\* The shapes of value arrays offered for these axes: the axis lengths, and
\* for low ranks the lengths reversed and one element too many.
ShapeChoices(axs) ==
    LET n == Len(axs)
        ls == [k \in 1..n |-> Len(axs[k])]
    IN  {ls} \cup (IF n \in 1..2
                   THEN {[k \in 1..n |-> ls[n + 1 - k]],
                         [k \in 1..n |-> IF k = 1 THEN ls[k] + 1 ELSE ls[k]]}
                   ELSE {})

Patterns(rank) == {1, 2}

\* Coordinates offered along an axis with these samples.
Mid(a, b) == (a + b) \div 2

Second(ax) == ax[IF Len(ax) >= 2 THEN 2 ELSE 1]

\* The point k sevenths of the way into the first cell of ax.
Sevenths(ax, k) == ax[1] + (k * (Second(ax) - ax[1])) \div 7

Prev(ax) == ax[IF Len(ax) >= 2 THEN Len(ax) - 1 ELSE 1]

Vertices(ax) == {ax[i] : i \in 1..Len(ax)}

Inside(ax) ==
    {Mid(ax[i], ax[i + 1]) : i \in 1..(Len(ax) - 1)}
    \cup {Mid(Prev(ax), Mid(Prev(ax), Last(ax)))}

NearEnds(ax) == {ax[1] + 1, Last(ax) - 1}

Probes(ax) == {ax[1] - 1, Last(ax) + 1, Last(ax) + 2, Last(ax) + Q, Num(201, 100)}

NonFinite == {NAN, INFINITY, -INFINITY}

Good(ax, rank) ==
    IF rank = 1 THEN Vertices(ax) \cup Inside(ax) \cup NearEnds(ax)
    ELSE IF rank = 2 THEN Vertices(ax) \cup {Mid(ax[1], Second(ax)), Last(ax) - 1}
    ELSE IF rank = 3 THEN {ax[1], Mid(ax[1], Second(ax)), Last(ax)}
    ELSE {Mid(Prev(ax), Last(ax)), Last(ax)}

Bad(ax, rank) ==
    IF rank <= 2 THEN Probes(ax) \cup NonFinite
    ELSE {ax[1] - 1, Last(ax) + Q, NAN, INFINITY}

Base(ax, rank) ==
    IF rank <= 2 THEN Good(ax, rank)
    ELSE IF rank = 3 THEN {Mid(ax[1], Second(ax)), Last(ax)}
    ELSE {Last(ax)}

\* The sequences whose k-th element is drawn from sets[k].
RECURSIVE Tuples(_)
Tuples(sets) ==
    IF sets = <<>> THEN {<<>>}
    ELSE {<<h>> \o t : h \in Head(sets), t \in Tuples(Tail(sets))}

\* The query points offered to a built interpolator: every combination of
\* in-range coordinates, and in-range points with one coordinate replaced by
\* an out-of-range or non-finite one; and the point k sevenths of the way
\* into the first cell of the k-th axis.
Queries ==
    LET n == ndim
    IN  Tuples([k \in 1..n |-> Good(axes[k], n)])
        \cup {[k \in 1..n |-> Sevenths(axes[k], k)]}
        \cup UNION {Tuples([k \in 1..n |-> IF k = j THEN Bad(axes[k], n)
                                                     ELSE Base(axes[k], n)])
                    : j \in 1..n}

(***************************************************************************)
(* The state machine: one object is constructed, then queried.             *)
(***************************************************************************)
\* The threads that may call a built interpolator at the same time.
NThreads == 2

Threads == 1..NThreads

\* A thread that is not inside a call.
IdleCall == [pc |-> "idle", all |-> <<>>, n |-> 0, k |-> 0, out |-> <<>>]

\* The C locals of one evaluation: xi..vi, xw..vw, s, a and b, not yet written.
BlankFrame ==
    [i |-> <<UNSET, UNSET, UNSET, UNSET, UNSET>>,
     w |-> <<UNSET, UNSET, UNSET, UNSET, UNSET>>,
     s |-> UNSET, a |-> UNSET, b |-> UNSET]

\* No chain of dependent calls has started.
NoChain == [n |-> 0, fn |-> "none", args |-> <<>>, lib |-> UNSET, val |-> UNSET,
            ret |-> UNSET, logl |-> 0, bad |-> FALSE, fed |-> FALSE, p |-> UNSET]

\* No buffer is modelled: the specification does not follow memory.
NoHeap == [bufs |-> <<>>, views |-> <<>>, writes |-> 0]

Init ==
    /\ pc = "new" /\ err = "none" /\ ndim = 0
    /\ x_len = 0 /\ y_len = 0 /\ z_len = 0 /\ u_len = 0 /\ v_len = 0
    /\ x_stride = 0 /\ y_stride = 0 /\ z_stride = 0 /\ u_stride = 0 /\ v_stride = 0
    /\ x_axis = <<>> /\ y_axis = <<>> /\ z_axis = <<>> /\ u_axis = <<>> /\ v_axis = <<>>
    /\ values = <<>> /\ _data = <<>>
    /\ axes = <<>> /\ arr = [shape |-> <<>>, pat |-> 1]
    /\ x = <<>> /\ result = UNSET
    /\ calls = [t \in Threads |-> IdleCall]
    /\ frames = [t \in Threads |-> BlankFrame]
    /\ chain = NoChain
    /\ heap = NoHeap

\* GridInterpolator(axes, values, tol): __init__ returns, and the object exists.
Construct ==
    /\ pc = "new"
    /\ \E axs \in AxesChoices :
       \E shape \in ShapeChoices(axs), pat \in Patterns(Len(axs)),
          kind \in {"ndarray", "list"} :
          LET o == init(axs, [shape |-> shape, pat |-> pat], DefaultTol, kind)
          IN  /\ o.err = "none"
              /\ pc' = "built"
              /\ ndim' = o.ndim
              /\ x_len' = o.lens[1] /\ y_len' = o.lens[2] /\ z_len' = o.lens[3]
              /\ u_len' = o.lens[4] /\ v_len' = o.lens[5]
              /\ x_stride' = o.strides[1] /\ y_stride' = o.strides[2]
              /\ z_stride' = o.strides[3] /\ u_stride' = o.strides[4]
              /\ v_stride' = o.strides[5]
              /\ x_axis' = o.slices[1] /\ y_axis' = o.slices[2]
              /\ z_axis' = o.slices[3] /\ u_axis' = o.slices[4]
              /\ v_axis' = o.slices[5]
              /\ values' = o.values /\ _data' = o.data
              /\ axes' = axs /\ arr' = [shape |-> shape, pat |-> pat]
              /\ UNCHANGED <<err, x, result, others>>

\* GridInterpolator(axes, values, tol): __init__ raises, and no object exists.
ConstructFails ==
    /\ pc = "new"
    /\ \E axs \in AxesChoices :
       \E shape \in ShapeChoices(axs), pat \in Patterns(Len(axs)),
          kind \in {"ndarray", "list"} :
          LET o == init(axs, [shape |-> shape, pat |-> pat], DefaultTol, kind)
          IN  /\ o.err # "none"
              /\ pc' = "failed"
              /\ err' = o.err
              /\ axes' = axs /\ arr' = [shape |-> shape, pat |-> pat]
              /\ UNCHANGED <<fields, x, result, others>>

\* self.interp(x) on the built object; x and result record the call.
Interp ==
    /\ pc = "built"
    /\ x = <<>>
    /\ \E p \in Queries, cast \in NanCasts :
          /\ x' = p
          /\ result' = interp(self, p, cast)
    /\ UNCHANGED <<pc, err, fields, axes, arr, others>>

\* The caller drops the result; the object is ready for the next call.
Return ==
    /\ pc = "built"
    /\ x # <<>>
    /\ x' = <<>>
    /\ result' = UNSET
    /\ UNCHANGED <<pc, err, fields, axes, arr, others>>

Next == Construct \/ ConstructFails \/ Interp \/ Return

Spec == Init /\ [][Next]_vars

(***************************************************************************)
(* Memory.  The caller's arrays and the interpolator's buffer are named    *)
(* buffers; a field of the interpolator that is a memoryview is a view     *)
(* [buf, start, stop) of one of them, and holds what is seen through it.   *)
(* Here axes and arr keep what was passed to the constructor, and the      *)
(* caller's arrays, which the caller may write to, live in heap.           *)
(***************************************************************************)
\* The writes the caller makes to its arrays after construction.
MaxWrites == 2

\* The caller's axis arrays (float64 ndarrays) and the arrays made in the
\* loop over axes.
AxName == <<"ax1", "ax2", "ax3", "ax4", "ax5">>

ProcName == <<"proc1", "proc2", "proc3", "proc4", "proc5">>

\* The buffer behind processed[k] (lines 42-45): np.array([...]) is a new
\* array, np.asarray(ax, np.float64) of a float64 array is ax itself.
processed_buffer(k, ax, tol) ==
    IF is_uniform(ax, tol) THEN ProcName[k] ELSE AxName[k]

\* The axis fields taken from the list of processed arrays: processed[k].
axis_view_of_processed(proc, start, stop) ==
    [buf |-> proc, start |-> 0, stop |-> stop - start]

\* self.x_axis = self._data[start:stop] (lines 53-69).
axis_view(proc, start, stop) ==
    [buf |-> "data", start |-> start, stop |-> stop]

\* The buffers and the views when __init__(axs, a, tol) returns: the caller's
\* arrays, the arrays of processed (values.flatten() is a copy), and the
\* array np.concatenate makes; views[k] is the k-th axis field and the view
\* after the last axis is self.values = self._data[stop:].
memory_after_init(axs, a, tol) ==
    LET n == Len(axs)
        enc == [k \in 1..n |-> encode(axs[k], tol)]
        flat == flatten(a)
        data == concatenate(enc \o <<flat>>)
        RECURSIVE stop(_)
        stop(k) == IF k = 0 THEN 0 ELSE stop(k - 1) + Len(enc[k])
        names == {AxName[k] : k \in 1..n}
                 \cup {ProcName[k] : k \in {j \in 1..n : is_uniform(axs[j], tol)}}
                 \cup {"vals", "flat", "data"}
        content(nm) ==
            IF nm = "data" THEN data
            ELSE IF nm \in {"vals", "flat"} THEN flat
            ELSE IF \E k \in 1..n : nm = AxName[k]
            THEN axs[CHOOSE k \in 1..n : nm = AxName[k]]
            ELSE enc[CHOOSE k \in 1..n : nm = ProcName[k]]
    IN  [bufs |-> [nm \in names |-> content(nm)],
         views |-> [k \in 1..(n + 1) |->
                      IF k <= n
                      THEN axis_view(processed_buffer(k, axs[k], tol),
                                     stop(k - 1), stop(k))
                      ELSE [buf |-> "data", start |-> stop(n), stop |-> Len(data)]],
         writes |-> 0]

\* What is seen through view k of memory h.
seen(h, k) ==
    IF k <= Len(h.views)
    THEN Slice(h.bufs[h.views[k].buf], h.views[k].start, h.views[k].stop)
    ELSE <<>>

\* The grids of the memory specification: an axis kept as its samples, and an
\* evenly spaced axis with one kept as its samples.
OwnGrids ==
    {[axs |-> <<AxisPool[7]>>, shape |-> <<3>>],
     [axs |-> <<AxisPool[2], AxisPool[7]>>, shape |-> <<3, 3>>]}

\* GridInterpolator(axes, values) on float64 arrays: __init__ returns; the
\* memoryview fields hold what their views show.
Own_Construct ==
    /\ pc = "new"
    /\ \E g \in OwnGrids :
          LET a == [shape |-> g.shape, pat |-> 2]
          IN  \E o \in {init(g.axs, a, DefaultTol, "ndarray")},
                 h \in {memory_after_init(g.axs, a, DefaultTol)} :
                  /\ o.err = "none"
                  /\ pc' = "built"
                  /\ heap' = h
                  /\ ndim' = o.ndim
                  /\ x_len' = o.lens[1] /\ y_len' = o.lens[2] /\ z_len' = o.lens[3]
                  /\ u_len' = o.lens[4] /\ v_len' = o.lens[5]
                  /\ x_stride' = o.strides[1] /\ y_stride' = o.strides[2]
                  /\ z_stride' = o.strides[3] /\ u_stride' = o.strides[4]
                  /\ v_stride' = o.strides[5]
                  /\ x_axis' = seen(h, 1)
                  /\ y_axis' = (IF o.ndim > 1 THEN seen(h, 2) ELSE <<>>)
                  /\ z_axis' = (IF o.ndim > 2 THEN seen(h, 3) ELSE <<>>)
                  /\ u_axis' = (IF o.ndim > 3 THEN seen(h, 4) ELSE <<>>)
                  /\ v_axis' = (IF o.ndim > 4 THEN seen(h, 5) ELSE <<>>)
                  /\ values' = seen(h, o.ndim + 1)
                  /\ _data' = h.bufs["data"]
                  /\ axes' = g.axs /\ arr' = a
                  /\ UNCHANGED <<err, x, result, calls, frames, chain>>

\* The caller adds 1.0 to one element of one of its arrays, between two
\* calls; every memoryview field shows what its view shows afterwards.
Own_Write ==
    /\ pc = "built" /\ x = <<>> /\ heap.writes < MaxWrites
    /\ \E nm \in {AxName[k] : k \in 1..ndim} \cup {"vals"} :
       \E i \in 1..Len(heap.bufs[nm]) :
          \E h \in {[heap EXCEPT !.bufs[nm][i] = @ + Q, !.writes = @ + 1]} :
              /\ heap' = h
              /\ x_axis' = seen(h, 1)
              /\ y_axis' = (IF ndim > 1 THEN seen(h, 2) ELSE <<>>)
              /\ z_axis' = (IF ndim > 2 THEN seen(h, 3) ELSE <<>>)
              /\ u_axis' = (IF ndim > 3 THEN seen(h, 4) ELSE <<>>)
              /\ v_axis' = (IF ndim > 4 THEN seen(h, 5) ELSE <<>>)
              /\ values' = seen(h, ndim + 1)
              /\ _data' = h.bufs["data"]
    /\ UNCHANGED <<pc, err, ndim, lens, strides, axes, arr, x, result,
                   calls, frames, chain>>

NextOwn == Own_Construct \/ Own_Write \/ Interp \/ Return

SpecOwn == Init /\ [][NextOwn]_vars

(***************************************************************************)
(* Calls from several threads on one built object.  A call is interp(x)    *)
(* for one point or __call__(arr) for two rows; it runs the statements of  *)
(* _interp1d, _interp2d or _interp3d one at a time, on its own C locals.   *)
(***************************************************************************)
\* The grids the threads share.
ThreadGrids ==
    {[axs |-> <<AxisPool[7]>>, shape |-> <<3>>],
     [axs |-> <<AxisPool[2], AxisPool[1]>>, shape |-> <<3, 2>>],
     [axs |-> <<AxisPool[1], AxisPool[7], AxisPool[1]>>, shape |-> <<2, 3, 2>>]}

\* The state __init__(axs, a) leaves behind when it returns.
BuiltFrom(axs, a) ==
    LET o == init(axs, a, DefaultTol, "ndarray")
    IN  /\ pc = "built" /\ err = o.err /\ ndim = o.ndim
        /\ x_len = o.lens[1] /\ y_len = o.lens[2] /\ z_len = o.lens[3]
        /\ u_len = o.lens[4] /\ v_len = o.lens[5]
        /\ x_stride = o.strides[1] /\ y_stride = o.strides[2]
        /\ z_stride = o.strides[3] /\ u_stride = o.strides[4]
        /\ v_stride = o.strides[5]
        /\ x_axis = o.slices[1] /\ y_axis = o.slices[2] /\ z_axis = o.slices[3]
        /\ u_axis = o.slices[4] /\ v_axis = o.slices[5]
        /\ values = o.values /\ _data = o.data
        /\ axes = axs /\ arr = a
        /\ x = <<>> /\ result = UNSET

InitThreads ==
    /\ \E g \in ThreadGrids : BuiltFrom(g.axs, [shape |-> g.shape, pat |-> 2])
    /\ calls = [t \in Threads |-> IdleCall]
    /\ frames = [t \in Threads |-> BlankFrame]
    /\ chain = NoChain
    /\ heap = NoHeap

\* The arguments a thread passes: a point beyond the first axis for interp,
\* and two rows inside the grid for __call__.
Batches ==
    LET hi == [k \in 1..ndim |-> Last(axes[k])]
        mid == [k \in 1..ndim |-> Mid(axes[k][1], Second(axes[k]))]
        out == [k \in 1..ndim |-> IF k = 1 THEN Last(axes[k]) + Q ELSE mid[k]]
    IN  {<<out>>, <<hi, mid>>}

\* One frame of C locals for all the threads, as static variables would be.
slot_shared(t) == 1

\* The frame holding the locals of thread t's call.
slot(t) == t

\* The locals after xi = _locatePoint_(.., &xw) for axis k returned l: the
\* index is assigned, the weight is written only when the point was found.
located(fr, k, l) ==
    [fr EXCEPT !.i[k] = l.i, !.w[k] = IF l.i < 0 THEN @ ELSE l.w]

\* _locatePoint_ writing its weight through the axis buffer instead of w.
locate_effect_through_axis(t, k, l) ==
    /\ frames' = [frames EXCEPT ![slot(t)] = located(@, k, l)]
    /\ x_axis' = IF k = 1 /\ l.i >= 0 THEN [x_axis EXCEPT ![3] = l.w] ELSE x_axis
    /\ UNCHANGED <<ndim, lens, strides, y_axis, z_axis, u_axis, v_axis, values, _data>>

\* What a _locatePoint_ call changes: the caller's locals, nothing of self.
locate_effect(t, k, l) ==
    /\ frames' = [frames EXCEPT ![slot(t)] = located(@, k, l)]
    /\ UNCHANGED fields

\* The call record after a row's result v was stored (rv[i] = v, or the
\* return of interp): on to the next row, or done.
Finished(c, v) ==
    [c EXCEPT !.out = Append(@, v),
              !.n = IF c.n = Len(c.all) THEN @ ELSE @ + 1,
              !.k = 1,
              !.pc = IF c.n = Len(c.all) THEN "done" ELSE "locate"]

\* A thread calls interp(x) or __call__(arr).
T_Call(t) ==
    /\ pc = "built" /\ calls[t].pc = "idle"
    /\ \E b \in Batches :
          calls' = [calls EXCEPT ![t] =
                       [pc |-> "locate", all |-> b, n |-> 1, k |-> 1, out |-> <<>>]]
    /\ UNCHANGED <<pc, err, fields, axes, arr, x, result, frames, chain, heap>>

\* The next _locatePoint_ call of the routine.
T_Locate(t) ==
    /\ calls[t].pc = "locate"
    /\ LET c == calls[t]
           l == _locatePoint_(c.all[c.n][c.k], slices[c.k], lens[c.k], 0)
       IN  /\ locate_effect(t, c.k, l)
           /\ calls' = [calls EXCEPT ![t].k = c.k + 1,
                                     ![t].pc = IF c.k = ndim THEN "check" ELSE "locate"]
    /\ UNCHANGED <<pc, err, axes, arr, x, result, chain, heap>>

\* if (xi < 0) or ..: return math.NAN, and otherwise s = xi*x_stride + ...
T_Check(t) ==
    /\ calls[t].pc = "check"
    /\ LET f == frames[slot(t)]
           RECURSIVE offset(_)
           offset(k) == IF k = 0 THEN 0 ELSE f.i[k] * strides[k] + offset(k - 1)
       IN  IF \E k \in 1..ndim : f.i[k] < 0
           THEN /\ calls' = [calls EXCEPT ![t] = Finished(@, NAN)]
                /\ UNCHANGED frames
           ELSE /\ calls' = [calls EXCEPT ![t].pc = "blend"]
                /\ frames' = [frames EXCEPT ![slot(t)].s = offset(ndim)]
    /\ UNCHANGED <<pc, err, fields, axes, arr, x, result, chain, heap>>

\* The weighted sum: all of it for rank 1 and 3, "a = ..; s += x_stride"
\* for rank 2.
T_Blend(t) ==
    /\ calls[t].pc = "blend"
    /\ LET f == frames[slot(t)]
       IN  IF ndim = 1
           THEN /\ calls' = [calls EXCEPT ![t] =
                                Finished(@, fadd(fmul(rd(values, f.i[1]), fsub(Q, f.w[1])),
                                                 fmul(f.w[1], rd(values, f.i[1] + 1))))]
                /\ UNCHANGED frames
           ELSE IF ndim = 2
           THEN /\ calls' = [calls EXCEPT ![t].pc = "blend_b"]
                /\ frames' = [frames EXCEPT
                                ![slot(t)].a = fadd(fmul(fsub(Q, f.w[2]), rd(values, f.s)),
                                                    fmul(f.w[2], rd(values, f.s + y_stride))),
                                ![slot(t)].s = f.s + x_stride]
           ELSE /\ calls' = [calls EXCEPT ![t] =
                                Finished(@, _unit_interp3(values, f.s, x_stride, y_stride,
                                                          z_stride, f.w[1], f.w[2], f.w[3]))]
                /\ UNCHANGED frames
    /\ UNCHANGED <<pc, err, fields, axes, arr, x, result, chain, heap>>

\* _interp2d: "b = .." and "return (1.-xw)*a + xw*b".
T_BlendB(t) ==
    /\ calls[t].pc = "blend_b"
    /\ LET f == frames[slot(t)]
           b == fadd(fmul(fsub(Q, f.w[2]), rd(values, f.s)),
                     fmul(f.w[2], rd(values, f.s + y_stride)))
       IN  /\ calls' = [calls EXCEPT ![t] =
                           Finished(@, fadd(fmul(fsub(Q, f.w[1]), f.a), fmul(f.w[1], b)))]
           /\ frames' = [frames EXCEPT ![slot(t)].b = b]
    /\ UNCHANGED <<pc, err, fields, axes, arr, x, result, chain, heap>>

\* The caller has the results; the thread may call again.
T_Return(t) ==
    /\ calls[t].pc = "done"
    /\ calls' = [calls EXCEPT ![t] = IdleCall]
    /\ UNCHANGED <<pc, err, fields, axes, arr, x, result, frames, chain, heap>>

NextThreads ==
    \E t \in Threads :
        \/ T_Call(t)
        \/ T_Locate(t)
        \/ T_Check(t)
        \/ T_Blend(t)
        \/ T_BlendB(t)
        \/ T_Return(t)

SpecThreads == InitThreads /\ [][NextThreads]_vars

(***************************************************************************)
(* __call__(arr): the loop over the query points, one statement at a time. *)
(* The call of the only caller is calls[1]; arg is the array passed, as    *)
(* its shape and its elements in C order.                                  *)
(***************************************************************************)
\* The query points of one __call__.
MaxRows == 3

\* The grids __call__ is made on.
CallGrids ==
    {[axs |-> <<AxisPool[7]>>, shape |-> <<3>>],
     [axs |-> <<AxisPool[2], AxisPool[1]>>, shape |-> <<3, 2>>],
     [axs |-> <<AxisPool[1], AxisPool[7], AxisPool[1]>>, shape |-> <<2, 3, 2>>]}

InitCall ==
    /\ \E g \in CallGrids : BuiltFrom(g.axs, [shape |-> g.shape, pat |-> 2])
    /\ calls = [t \in Threads |-> IdleCall]
    /\ frames = [t \in Threads |-> BlankFrame]
    /\ chain = NoChain
    /\ heap = NoHeap

\* The points a caller puts in the array: inside the first cell, the upper
\* corner, beyond the first axis, and with a NaN first coordinate.
CallPoints ==
    LET mid == [k \in 1..ndim |-> Mid(axes[k][1], Second(axes[k]))]
        hi == [k \in 1..ndim |-> Last(axes[k])]
    IN  {mid, hi,
         [mid EXCEPT ![1] = Last(axes[1]) + Q],
         [hi EXCEPT ![1] = NAN]}

\* The arrays a caller passes: m points as an array of shape (m, ndim), one
\* point as an array of shape (ndim,), and for rank 1 also shapes (m,) and
\* (1, m).
CallArgs ==
    UNION {LET data(ps) == concatenate(ps)
               shapes == {<<m, ndim>>}
                         \cup (IF ndim = 1 THEN {<<m>>, <<1, m>>} ELSE {})
                         \cup (IF m = 1 THEN {<<ndim>>} ELSE {})
           IN  {[shape |-> s, data |-> data(ps)] :
                    s \in shapes, ps \in [1..m -> CallPoints]}
           : m \in 1..MaxRows}

\* The rows of xt taken down the columns of the array, as for an array in
\* Fortran order.
call_points_by_column(n, a) ==
    IF n = 1 THEN [i \in 1..Len(a.data) |-> <<a.data[i]>>]
    ELSE LET rows == IF Len(a.shape) = 1 THEN 1 ELSE a.shape[1]
         IN  [i \in 1..rows |-> [k \in 1..n |-> a.data[i + (k - 1) * rows]]]

\* The points __call__ evaluates (lines 84-85 and 91): np.array(arr).ravel()
\* for rank 1, the rows of np.atleast_2d(arr) otherwise.
call_points(n, a) ==
    IF n = 1 THEN [i \in 1..Len(a.data) |-> <<a.data[i]>>]
    ELSE LET rows == IF Len(a.shape) = 1 THEN 1 ELSE a.shape[1]
             cols == Len(a.data) \div rows
         IN  [i \in 1..rows |-> SubSeq(a.data, (i - 1) * cols + 1, i * cols)]

\* result.squeeze(): an array of one element becomes a scalar.
squeeze(r) == IF Len(r) = 1 THEN r[1] ELSE r

\* self(arr) up to the loop: xt and the uninitialised result np.empty(..).
Call_Begin ==
    /\ pc = "built" /\ calls[1].pc = "idle"
    /\ \E a \in CallArgs :
          \E ps \in {call_points(ndim, a)} :
              calls' = [calls EXCEPT ![1] =
                           [pc |-> "loop", arg |-> a, all |-> ps, n |-> 1, k |-> 1,
                            out |-> [i \in 1..Len(ps) |-> UNSET]]]
    /\ UNCHANGED <<pc, err, fields, axes, arr, x, result, frames, chain, heap>>

\* One turn of the loop: rv[i] = self._interp1d(xt1d[i]) for rank 1,
\* rv[i] = self.interp(xt[i]) otherwise.
Call_Step ==
    /\ calls[1].pc = "loop"
    /\ LET c == calls[1]
       IN  \E v \in {IF ndim = 1 THEN _interp1d(self, c.all[c.n][1], 0)
                     ELSE interp(self, c.all[c.n], 0)} :
              calls' = [calls EXCEPT ![1].out[c.n] = v,
                                     ![1].n = c.n + 1,
                                     ![1].pc = IF c.n = Len(c.all) THEN "return"
                                               ELSE "loop"]
    /\ UNCHANGED <<pc, err, fields, axes, arr, x, result, frames, chain, heap>>

\* return result for rank 1, return result.squeeze() otherwise.
Call_Return ==
    /\ calls[1].pc = "return"
    /\ calls' = [calls EXCEPT ![1].pc = "returned"]
    /\ result' = (IF ndim = 1 THEN calls[1].out ELSE squeeze(calls[1].out))
    /\ UNCHANGED <<pc, err, fields, axes, arr, x, frames, chain, heap>>

NextCall == Call_Begin \/ Call_Step \/ Call_Return

SpecCall == InitCall /\ [][NextCall]_vars

(***************************************************************************)
(* The probability primitives, and a chain of dependent calls: the result  *)
(* of one interp call is a coordinate of the next, or the x of an lpdf     *)
(* whose value is added to the log-likelihood.                             *)
(***************************************************************************)
\* A ZeroDivisionError raised by a checked C division.
RAISED == 2 ^ 30 + 4

SQRT2 == Num(14142, 10000)

M_PI == Num(31416, 10000)

LN2 == Num(6931, 10000)

\* The largest e with 2^e <= n, for n >= 1.
RECURSIVE ilog2(_)
ilog2(n) == IF n < 2 THEN 0 ELSE 1 + ilog2(n \div 2)

\* math.log: NaN below zero, -inf at zero, +inf at +inf; between powers of
\* two the logarithm is followed linearly.
log(v) ==
    IF isnan(v) THEN NAN
    ELSE IF v = INFINITY THEN INFINITY
    ELSE IF v < 0 THEN NAN
    ELSE IF v = 0 THEN -INFINITY
    ELSE LET e == ilog2(v)
             frac == RoundDiv((v - 2 ^ e) * Q, 2 ^ e)
         IN  fmul((e - FracBits) * Q + frac, LN2)

\* uniform_lpdf with its bounds test written as "not (x < xmin or x > xmax)".
uniform_lpdf_closed(px, xmin, xmax) ==
    IF ~(flt(px, xmin) \/ flt(xmax, px)) THEN fneg(log(fsub(xmax, xmin)))
    ELSE -INFINITY

\* uniform_lpdf with its upper test written as "x <= xmax".
uniform_lpdf_upper_closed(px, xmin, xmax) ==
    IF flt(xmin, px) /\ fle(px, xmax) THEN fneg(log(fsub(xmax, xmin)))
    ELSE -INFINITY

uniform_lpdf(px, xmin, xmax) ==
    IF flt(xmin, px) /\ flt(px, xmax) THEN fneg(log(fsub(xmax, xmin)))
    ELSE -INFINITY

\* uniform_ppf without the offset xmin.
uniform_ppf_from_zero(px, xmin, xmax) == fmul(px, fsub(xmax, xmin))

uniform_ppf(px, xmin, xmax) == fadd(xmin, fmul(px, fsub(xmax, xmin)))

normal_lpdf(px, mean, sigma) ==
    IF fle(sigma, 0) THEN NAN
    ELSE LET d == fsub(px, mean)
         IN  fsub(fdiv(fneg(fmul(d, d)), fmul(fmul(2 * Q, sigma), sigma)),
                  fmul(Num(1, 2), log(fmul(fmul(fmul(2 * Q, M_PI), sigma), sigma))))

\* special.erfcinv(2.*p) is the library's answer erfcinv.
normal_ppf(p, mean, sigma, erfcinv) ==
    fadd(fmul(fmul(fneg(SQRT2), erfcinv), sigma), mean)

\* special.betaln(alpha, beta) is the library's answer betaln.
beta_lpdf(px, alpha, beta, betaln) ==
    fsub(fadd(fmul(fsub(alpha, Q), log(px)),
              fmul(fsub(beta, Q), log(fsub(Q, px)))),
         betaln)

\* special.betaincinv(alpha, beta, p) is the library's answer.
beta_ppf(p, alpha, beta, betaincinv) == betaincinv

\* special.gammaln(alpha) is the library's answer gammaln.
gamma_lpdf(px, alpha, lamb, gammaln) ==
    fsub(fsub(fadd(fmul(fsub(alpha, Q), log(fmul(px, lamb))), log(lamb)),
              fmul(lamb, px)),
         gammaln)

\* special.gammaincinv(alpha, p) is the library's answer; the division by a
\* zero lamb raises unless the module is compiled with cdivision.
gamma_ppf(p, alpha, lamb, gammaincinv, cdivision) ==
    IF lamb = 0 /\ ~cdivision THEN RAISED ELSE fdiv(gammaincinv, lamb)

Lpdfs == {"uniform_lpdf", "normal_lpdf", "beta_lpdf", "gamma_lpdf"}

Ppfs == {"uniform_ppf", "normal_ppf", "beta_ppf", "gamma_ppf"}

\* The call fn(a[1], a[2], a[3]) with the library's answer lib.
primitive(fn, a, lib, cdivision) ==
    IF fn = "uniform_lpdf" THEN uniform_lpdf(a[1], a[2], a[3])
    ELSE IF fn = "uniform_ppf" THEN uniform_ppf(a[1], a[2], a[3])
    ELSE IF fn = "normal_lpdf" THEN normal_lpdf(a[1], a[2], a[3])
    ELSE IF fn = "normal_ppf" THEN normal_ppf(a[1], a[2], a[3], lib)
    ELSE IF fn = "beta_lpdf" THEN beta_lpdf(a[1], a[2], a[3], lib)
    ELSE IF fn = "beta_ppf" THEN beta_ppf(a[1], a[2], a[3], lib)
    ELSE IF fn = "gamma_lpdf" THEN gamma_lpdf(a[1], a[2], a[3], lib)
    ELSE gamma_ppf(a[1], a[2], a[3], lib, cdivision)

\* What a scipy.special function may answer: the model assumes nothing of it.
LibValues == {NAN, INFINITY, -INFINITY, 0, Q, -Q}

\* Second and third arguments of a primitive, valid and invalid.
Params == {-Q, 0, Num(1, 2), Q, 2 * Q}

\* The parameters of the lpdfs of a chain, and what the library answers them.
ChainParams == {<<0, Q>>, <<Q, 2 * Q>>, <<Q, 0>>}

ChainLib == {Q, INFINITY}

\* First arguments of a primitive called on its own.
Firsts == {NAN, Num(1, 4), Num(1, 2), 3 * Q}

\* The calls a chain may make after the first.
MaxChain == 3

ChainGrids ==
    {[axs |-> <<AxisPool[2]>>, shape |-> <<3>>],
     [axs |-> <<AxisPool[2], AxisPool[1]>>, shape |-> <<3, 2>>]}

InitChain ==
    /\ \E g \in ChainGrids : BuiltFrom(g.axs, [shape |-> g.shape, pat |-> 2])
    /\ calls = [t \in Threads |-> IdleCall]
    /\ frames = [t \in Threads |-> BlankFrame]
    /\ chain = NoChain
    /\ heap = NoHeap

\* The points of the first interp call of a chain.
ChainQueries ==
    Tuples([k \in 1..ndim |-> {axes[k][1], Mid(axes[k][1], Second(axes[k]))}])
    \cup {[k \in 1..ndim |-> Last(axes[k]) + Q]}

\* The first call of the chain: interp at a point of the caller's choice.
Ch_Interp ==
    /\ pc = "built" /\ chain.n = 0 /\ chain.fn = "none"
    /\ \E p \in ChainQueries :
          \E v \in {interp(self, p, 0)} :
              chain' = [chain EXCEPT !.n = 1, !.val = v, !.bad = isnan(v)]
    /\ UNCHANGED <<pc, err, fields, axes, arr, x, result, calls, frames, heap>>

\* A later interp call with the value of the chain as coordinate k.
Ch_Feed ==
    /\ pc = "built" /\ chain.val # UNSET /\ chain.n < MaxChain
    /\ \E k \in 1..ndim :
          LET p == [j \in 1..ndim |-> IF j = k THEN chain.val ELSE axes[j][1]]
          IN  \E v \in {interp(self, p, 0)} :
                  chain' = [chain EXCEPT !.n = @ + 1, !.val = v,
                                         !.bad = @ \/ isnan(v)]
    /\ UNCHANGED <<pc, err, fields, axes, arr, x, result, calls, frames, heap>>

\* An lpdf with the value of the chain as its first argument, added to the log-likelihood.
Ch_Lpdf ==
    /\ pc = "built" /\ chain.val # UNSET /\ chain.n < MaxChain
    /\ \E fn \in Lpdfs, ab \in ChainParams, lib \in ChainLib :
          \E r \in {primitive(fn, <<chain.val>> \o ab, lib, TRUE)} :
              chain' = [chain EXCEPT !.n = @ + 1, !.fn = fn,
                                     !.args = <<chain.val>> \o ab, !.ret = r,
                                     !.lib = lib,
                                     !.logl = fadd(@, r),
                                     !.fed = @ \/ chain.bad]
    /\ UNCHANGED <<pc, err, fields, axes, arr, x, result, calls, frames, heap>>

\* A primitive called on its own, with arguments of the caller's choice.
Ch_Prim ==
    /\ pc = "built" /\ chain.n = 0 /\ chain.fn = "none"
    /\ \E fn \in Lpdfs \cup Ppfs, f \in Firsts, a \in Params, b \in Params,
          lib \in LibValues, cdivision \in BOOLEAN :
          chain' = [chain EXCEPT !.fn = fn, !.args = <<f, a, b>>, !.lib = lib,
                                 !.ret = primitive(fn, <<f, a, b>>, lib, cdivision)]
    /\ UNCHANGED <<pc, err, fields, axes, arr, x, result, calls, frames, heap>>

\* The unit-interval draws of an initial walker state: the two ends, the
\* middle, and the draws next to each end.
DrawPs == {0, 1, Num(1, 2), Q - 1, Q}

\* An initial state drawn from the prior PPF (docs/sampling.rst), and the
\* log prior at it: uniform_ppf(p, a, b) and then uniform_lpdf of the value
\* with the same bounds.
Ch_Draw ==
    /\ pc = "built" /\ chain.n = 0 /\ chain.fn = "none"
    /\ \E p \in DrawPs, a \in Params, b \in Params :
          \E v \in {uniform_ppf(p, a, b)} :
              chain' = [chain EXCEPT !.fn = "uniform_lpdf", !.args = <<v, a, b>>,
                                     !.ret = uniform_lpdf(v, a, b), !.p = p]
    /\ UNCHANGED <<pc, err, fields, axes, arr, x, result, calls, frames, heap>>

NextChain == Ch_Interp \/ Ch_Feed \/ Ch_Lpdf \/ Ch_Prim \/ Ch_Draw

SpecChain == InitChain /\ [][NextChain]_vars

(***************************************************************************)
(* Claims.                                                                 *)
(***************************************************************************)
Built == pc = "built"

Queried == pc = "built" /\ x # <<>>

\* The lengths of the caller's axes, in declared order.
AxisLens == [k \in 1..Len(axes) |-> Len(axes[k])]

\* The caller's value array has the shape the axes give it.
Shaped == arr.shape = AxisLens

\* The multi-indices (0-based) of an array of this shape.
Indices(shape) == {unravel(k, shape) : k \in 0..(Prod(shape) - 1)}

RECURSIVE Dot(_, _, _)
Dot(a, b, k) == IF k = 0 THEN 0 ELSE a[k] * b[k] + Dot(a, b, k - 1)

\* C7: after construction with rank 1..5 the stride of the k-th declared axis
\* is the product of the lengths of the axes declared after it (the last
\* declared axis has stride 1), every unused dimension has length 1, and the
\* element (i_1..i_N) of the caller's value array is the stored value at
\* offset sum_k i_k * stride_k.
C7_RowMajorStrides ==
    Built =>
        /\ ndim \in 1..MaxDim
        /\ \A k \in 1..ndim : strides[k] = Prod(SubSeq(AxisLens, k + 1, ndim))
        /\ strides[ndim] = 1
        /\ \A k \in (ndim + 1)..MaxDim : lens[k] = 1
        /\ Shaped => \A idx \in Indices(AxisLens) :
                        rd(values, Dot(idx, strides, ndim)) = At(arr, idx)

\* A rank-5 grid with axes of different lengths.
C7_Witness ==
    /\ Built /\ ndim = 5 /\ Shaped /\ arr.pat = 1
    /\ x_len = 3 /\ v_len = 2 /\ y_len = 2 /\ u_len = 3
    /\ x_stride = 36

\* The locate result of the k-th coordinate of the last query.
Loc(k) == _locatePoint_(x[k], slices[k], lens[k], 0)

\* The k-th coordinate was located in a cell of its axis.
InCell(k) == Loc(k).i \in 0..(lens[k] - 2)

\* A weight whose products over five axes are computed without rounding.
Dyadic(w) == w % (Q \div 4) = 0

\* The reference multilinear formula: the sum over the corners c in {0,1}^N of
\* the caller's value at (i_1 + c_1, .., i_N + c_N) times the product over k
\* of (w_k if c_k = 1 else 1 - w_k); axes k.. remain to be expanded.
RECURSIVE CornerSum(_, _, _)
CornerSum(k, idx, wprod) ==
    IF k > ndim THEN fmul(At(arr, idx), wprod)
    ELSE fadd(CornerSum(k + 1, idx, fmul(wprod, fsub(Q, Loc(k).w))),
              CornerSum(k + 1, [idx EXCEPT ![k] = @ + 1], fmul(wprod, Loc(k).w)))

\* C4: for rank 1..5 and a point located in a cell on every axis, with locate
\* results (i_k, w_k), interp returns the sum over the 2^N corners of the cell
\* of the value at the corner times its product of weights.  (Checked where
\* the weights are multiples of 1/4, so that no product is rounded.)
C4_MultilinearFormula ==
    (/\ Queried /\ Shaped
     /\ \A k \in 1..ndim : InCell(k) /\ Dyadic(Loc(k).w))
    => result = CornerSum(1, [k \in 1..ndim |-> Loc(k).i], Q)

\* A rank-5 query strictly inside a cell on every axis.
C4_Witness ==
    /\ Queried /\ Shaped /\ ndim = 5 /\ arr.pat = 2
    /\ \A k \in 1..ndim : InCell(k) /\ Loc(k).w = Q \div 2
    /\ x_len = 3 /\ u_len = 3
    /\ isfinite(result) /\ result < OOB

\* C8: for the rank-2 grid with axes x=[0,1,2], y=[0,1] and values shaped
\* (3,2) flattened as [0,1,10,11,20,21]: interp([0.5,0]) = 5.0,
\* interp([1,1]) = 11.0, interp([2,0.5]) = 20.5, and interp([2.01,0]) is NaN.
C8_EndToEnd ==
    (/\ Built
     /\ axes = <<(<<0, Q, 2 * Q>>), (<<0, Q>>)>>
     /\ arr = [shape |-> <<3, 2>>, pat |-> 1])
    => /\ values = <<0, Q, 10 * Q, 11 * Q, 20 * Q, 21 * Q>>
       /\ x = <<Num(1, 2), 0>> => result = 5 * Q
       /\ x = <<Q, Q>> => result = 11 * Q
       /\ x = <<2 * Q, Num(1, 2)>> => result = Num(41, 2)
       /\ x = <<Num(201, 100), 0>> => result = NAN

\* The query on the maximum edge of x has been answered.
C8_Witness ==
    /\ Built
    /\ axes = <<(<<0, Q, 2 * Q>>), (<<0, Q>>)>>
    /\ arr = [shape |-> <<3, 2>>, pat |-> 1]
    /\ x = <<2 * Q, Num(1, 2)>>
    /\ result = Num(41, 2)

\* The caller's axes all have at least two samples.
TwoOrMore == \A k \in 1..Len(axes) : Len(axes[k]) >= 2

\* The k-th coordinate of the query is outside the caller's k-th axis, or is
\* not finite.
Outside(k) ==
    \/ ~isfinite(x[k])
    \/ x[k] < axes[k][1]
    \/ x[k] > Last(axes[k])

\* The 0-based position of the sample of ax that equals p.
VertexIndex(ax, p) == (CHOOSE j \in 1..Len(ax) : ax[j] = p) - 1

\* The samples of ax are equally spaced.
EvenlySpaced(ax) ==
    \A j \in 2..(Len(ax) - 1) : ax[j + 1] - ax[j] = ax[j] - ax[j - 1]

\* The k-th axis is stored as [start, inverse step, 0.].
StoredUniform(k) == ~flt(rd(slices[k], 1), rd(slices[k], 2))

\* C1: interp returns NaN whenever some coordinate of the point is NaN,
\* +-infinity, below its axis minimum or above its axis maximum, for rank 1..5
\* and axes stored either way.
C1_OutsideIsNaN ==
    (Queried /\ TwoOrMore /\ \E k \in 1..ndim : Outside(k)) => result = NAN

\* C2: _locatePoint_ returns a negative index exactly when the point is not
\* finite, below the axis minimum or above the axis maximum; every finite
\* point from the minimum to the maximum, both included, is found.
C2_NegativeIffOutside ==
    (Queried /\ TwoOrMore) =>
        \A k \in 1..ndim : (Loc(k).i < 0) <=> Outside(k)

\* C3: a point equal to the maximum of an axis of n >= 2 samples is located at
\* index n-2 with weight 1.0, whichever way the axis is stored.
C3_MaxIsLastCell ==
    (Queried /\ TwoOrMore) =>
        \A k \in 1..ndim :
            x[k] = Last(axes[k]) => Loc(k) = [i |-> lens[k] - 2, w |-> Q]

\* C5: interp at a stored vertex, the maximum edges included, returns the
\* value stored for that vertex, for rank 1..5 and axes stored either way.
C5_VertexReproduced ==
    (/\ Queried /\ Shaped /\ TwoOrMore
     /\ \A k \in 1..ndim : x[k] \in Vertices(axes[k]))
    => result = At(arr, [k \in 1..ndim |-> VertexIndex(axes[k], x[k])])

\* C6: for an evenly spaced axis of n >= 3 samples the Uniform code path (on
\* the stored [start, inverse step, 0.]) and the Explicit code path (on the
\* samples themselves) return the same (index, weight) for every in-range
\* point.
C6_PathsAgree ==
    (Queried /\ TwoOrMore) =>
        \A k \in 1..ndim :
            (/\ lens[k] >= 3 /\ EvenlySpaced(axes[k]) /\ StoredUniform(k)
             /\ ~Outside(k))
            => Loc(k) = _locatePoint_(x[k], axes[k], lens[k], 0)

\* C9: on a rank-1 grid of two samples x0 < x1 with values y0, y1, interp at
\* x0 + t*(x1 - x0) is (1-t)*y0 + t*y1; checked at t = 0, 1/2 and 1.
C9_TwoSampleLine ==
    (Queried /\ Shaped /\ ndim = 1 /\ x_len = 2) =>
        LET y0 == At(arr, <<0>>)
            y1 == At(arr, <<1>>)
        IN  /\ x[1] = axes[1][1] => result = y0
            /\ x[1] = Mid(axes[1][1], axes[1][2]) => result = Mid(y0, y1)
            /\ x[1] = axes[1][2] => result = y1

\* C10: construction does not succeed when an axis is not strictly increasing
\* or has fewer than 2 samples.
C10_BadAxisRejected ==
    Built => \A k \in 1..Len(axes) :
                 Len(axes[k]) >= 2 /\ diff_all_positive(axes[k])

\* The constructor has been called and has returned or raised.
Attempted == pc \in {"built", "failed"}

\* Every axis the caller passed has two or more strictly increasing samples.
ValidAxes ==
    \A k \in 1..Len(axes) : Len(axes[k]) >= 2 /\ diff_all_positive(axes[k])

\* The caller's value array has as many elements as the axes have grid points.
Matching == Prod(arr.shape) = Prod(AxisLens)

\* C11: construction fails when the number of axes is 0 (IndexError at the
\* read of axes[0]) or greater than 5 (AssertionError of the rank assert),
\* and succeeds for every rank 1..5 given valid axes and a matching number of
\* values.
C11_RankValidated ==
    Attempted =>
        /\ Len(axes) = 0 => pc = "failed" /\ err = "IndexError"
        /\ Len(axes) > MaxDim => pc = "failed" /\ err = "AssertionError"
        /\ (Len(axes) \in 1..MaxDim /\ ValidAxes /\ Matching)
           => pc = "built" /\ ndim = Len(axes)

\* The constructor was called with no axis and raised.
C11_Witness == pc = "failed" /\ axes = <<>> /\ err = "IndexError"

\* C12: construction fails when the number of values differs from the
\* product of the axis lengths, and every built interpolator has
\* len(values) = x_len*y_len*z_len*u_len*v_len = the product of the declared
\* axis lengths, in every state of its lifetime.
C12_CountMatches ==
    /\ (Attempted /\ Len(axes) \in 1..MaxDim /\ ~Matching) => pc = "failed"
    /\ Built => /\ Len(values) = x_len * y_len * z_len * u_len * v_len
                /\ Len(values) = Prod(AxisLens)

\* Valid axes of rank 2 with one row of values too many: the count assert raised.
C12_Witness ==
    /\ pc = "failed" /\ err = "AssertionError"
    /\ Len(axes) = 2 /\ ValidAxes /\ ~Matching

\* C13: construction fails when the shape of the values array differs from
\* the axis lengths in declared order, even when the number of elements
\* equals the product of the axis lengths.
C13_ShapeRejected ==
    (Attempted /\ Len(axes) \in 1..MaxDim /\ arr.shape # AxisLens)
    => pc = "failed"

\* The i-th sample (from 1) of the evenly spaced sequence with the end points
\* and the count of ax.
Even(ax, i) == ax[1] + RoundDiv((i - 1) * (Last(ax) - ax[1]), Len(ax) - 1)

\* Every sample of ax is within tol*(1 + |value|) of the evenly spaced one.
InTolerance(ax, tol) ==
    \A i \in 1..Len(ax) :
        Abs(ax[i] - Even(ax, i)) <= (tol.num * (Q + Abs(Even(ax, i)))) \div tol.den

\* ax is a geometric sequence of one of these ratios.
GeomRatios == {<<2, 1>>, <<3, 2>>, <<1001, 1000>>}

Geometric(ax) ==
    \E r \in GeomRatios : ax = geomspace(ax[1], r[1], r[2], Len(ax))

\* The axis is stored Uniform when it is within tolerance and Explicit otherwise.
EncodedByTolerance(k) ==
    LET ax == axes[k]
        n == Len(ax)
    IN  IF InTolerance(ax, DefaultTol)
        THEN slices[k] = <<ax[1], fdiv((n - 1) * Q, ax[n] - ax[1]), 0>>
        ELSE slices[k] = ax

C15_InterleavingsAgree ==
    \A t \in Threads :
        \A j \in 1..Len(calls[t].out) :
            calls[t].out[j] = interp(self, calls[t].all[j], 0)

\* One thread has finished a two-row call while another is between the two
\* halves of the weighted sum of its first row, with other weights.
C15_Witness ==
    /\ calls[1].pc = "done" /\ Len(calls[1].out) = 2
    /\ isfinite(calls[1].out[1]) /\ calls[1].out[1] < OOB
    /\ calls[2].pc = "blend_b" /\ calls[2].n = 1
    /\ frames[1].w # frames[2].w

\* C16: no statement of interp, _interp1d.._interp5d, _unit_interp3,
\* _locatePoint_ or __call__ changes a field of the interpolator, which stays
\* as the constructor built it; a locate call writes only its own index and
\* weight, so two locate calls made in either order leave the same locals.
C16_FieldsUntouched ==
    /\ LET o == init(axes, arr, DefaultTol, "ndarray")
       IN  /\ ndim = o.ndim /\ lens = o.lens /\ strides = o.strides
           /\ slices = o.slices /\ values = o.values /\ _data = o.data
    /\ \A t \in Threads :
          calls[t].pc = "locate" =>
              \A j, k \in 1..ndim :
                  LET p == calls[t].all[calls[t].n]
                      lj == _locatePoint_(p[j], slices[j], lens[j], 0)
                      lk == _locatePoint_(p[k], slices[k], lens[k], 0)
                      f == frames[slot(t)]
                  IN  j # k => located(located(f, j, lj), k, lk)
                               = located(located(f, k, lk), j, lj)

\* A thread has made the first two locate calls of a rank-3 evaluation while
\* another thread has finished a call.
C16_Witness ==
    /\ ndim = 3
    /\ calls[1].pc = "locate" /\ calls[1].k = 3
    /\ frames[1].i[1] # UNSET /\ frames[1].i[2] # UNSET
    /\ calls[2].pc = "done"

\* The parameters of the last primitive call are ones the spec calls invalid.
InvalidParams ==
    LET a == chain.args
    IN  \/ chain.fn \in {"normal_lpdf", "normal_ppf"} /\ a[3] <= 0
        \/ chain.fn \in {"uniform_lpdf", "uniform_ppf"} /\ a[3] <= a[2]
        \/ chain.fn \in {"beta_lpdf", "beta_ppf", "gamma_lpdf", "gamma_ppf"}
           /\ (a[2] <= 0 \/ a[3] <= 0)

\* The library answered NaN to the last call, if it was a beta or gamma one.
LibraryRejects ==
    chain.fn \in {"beta_lpdf", "beta_ppf", "gamma_lpdf", "gamma_ppf"}
    => chain.lib = NAN

\* C17: each of the eight probability primitives returns NaN, without
\* raising, when called with sigma <= 0 (normal), xmax <= xmin (uniform), or a
\* non-positive alpha, beta or lamb (beta, gamma); scipy.special is taken to
\* answer NaN for a non-positive alpha, beta or lamb.
C17_InvalidGivesNaN ==
    (chain.fn # "none" /\ InvalidParams /\ LibraryRejects) => chain.ret = NAN

NonFiniteValue(v) == v \in {NAN, INFINITY, -INFINITY}

\* C18: once an interp call of a chain has returned NaN, every later interp
\* call fed that value returns NaN, every lpdf given it as x returns a
\* non-finite value, and the accumulated log-likelihood is non-finite; no
\* call raises.
C18_SentinelPropagates ==
    /\ chain.bad => chain.val = NAN
    /\ (chain.fn \in Lpdfs /\ isnan(chain.args[1])) => NonFiniteValue(chain.ret)
    /\ chain.fed => NonFiniteValue(chain.logl)

\* A chain of three calls: interp returned NaN, a second interp was fed it,
\* and an lpdf with valid parameters took the result as x.
C18_Witness ==
    /\ chain.n = 3 /\ chain.bad /\ chain.fed
    /\ chain.fn = "uniform_lpdf" /\ chain.args = <<NAN, 0, Q>>
    /\ chain.logl = -INFINITY

\* The smallest c with 2^c >= m.
CeilLog2(m) == CHOOSE c \in 0..20 : 2 ^ c >= m /\ (c = 0 \/ 2 ^ (c - 1) < m)

\* The k-th axis is stored as its n >= 3 samples and the k-th coordinate of
\* the query is finite, at or above the first sample and below the last.
InExplicitRange(k) ==
    /\ lens[k] >= 3
    /\ ~StoredUniform(k)
    /\ isfinite(x[k])
    /\ rd(slices[k], 0) <= x[k]
    /\ x[k] < Last(slices[k])

\* The search for the k-th coordinate returns within ceil(log2(n-1))+1
\* executions of the loop body, and what _locatePoint_ returns is the one
\* cell i with axis[i] <= point < axis[i+1] and the quotient
\* (point - axis[i]) / (axis[i+1] - axis[i]).
ExplicitCell(k) ==
    LET n == lens[k]
        ax == slices[k]
        i == Loc(k).i
    IN  /\ search(x[k], ax, (n - 1) \div 2, 0, n - 1, CeilLog2(n - 1) + 1) = i
        /\ i \in 0..(n - 2)
        /\ rd(ax, i) <= x[k]
        /\ x[k] < rd(ax, i + 1)
        /\ \A j \in 0..(n - 2) :
               (rd(ax, j) <= x[k] /\ x[k] < rd(ax, j + 1)) => j = i
        /\ Loc(k).w = fdiv(x[k] - rd(ax, i), rd(ax, i + 1) - rd(ax, i))

UniformTop(k) ==
    fadd(rd(slices[k], 0), fdiv((lens[k] - 1) * Q, rd(slices[k], 1)))

\* The k-th axis is stored as [start, inverseStep, 0] for n >= 2 samples and
\* the k-th coordinate of the query is finite, at or above start and below
\* start + (n-1)/inverseStep.
InUniformRange(k) ==
    /\ lens[k] >= 2
    /\ StoredUniform(k)
    /\ isfinite(rd(slices[k], 1))
    /\ isfinite(x[k])
    /\ rd(slices[k], 0) <= x[k]
    /\ x[k] < UniformTop(k)

\* C20: on a Uniform axis of length n and a finite point with
\* start <= point < start + (n-1)/inverseStep, _locatePoint_ returns
\* index = floor((point - start) * inverseStep) and weight = that product
\* minus the index, so 0 <= index <= n-2 and 0 <= weight < 1.
C20_UniformCell ==
    Queried =>
        \A k \in 1..ndim :
            InUniformRange(k) =>
                LET raw == fmul(x[k] - rd(slices[k], 0), rd(slices[k], 1))
                IN  /\ Loc(k).i = raw \div Q
                    /\ Loc(k).w = raw - Loc(k).i * Q
                    /\ 0 <= Loc(k).i
                    /\ Loc(k).i <= lens[k] - 2
                    /\ 0 <= Loc(k).w
                    /\ Loc(k).w < Q

\* C21: for every built interpolator of rank 1..5 and every query, each
\* position of values read by _interp1d.._interp5d and _unit_interp3 is in
\* [0, len(values)-1], also when a coordinate equals its axis maximum, values
\* is not read when a locate failed, and every read of an axis inside
\* _locatePoint_ is inside that axis's stored slice.  (Stated for axes of two
\* or more samples.)
C21_ReadsInBounds ==
    (Queried /\ TwoOrMore) =>
        /\ \A j \in value_reads(self, x, 0) : 0 <= j /\ j <= Len(values) - 1
        /\ (\E k \in 1..ndim : Loc(k).i < 0) => value_reads(self, x, 0) = {}
        /\ \A k \in 1..ndim :
              \A j \in axis_reads(x[k], slices[k], lens[k]) :
                  0 <= j /\ j <= Len(slices[k]) - 1

\* The caller's k-th axis is one the constructor accepts: two or more
\* samples, strictly increasing.
AcceptedAxis(k) ==
    /\ Len(axes[k]) >= 2
    /\ \A i \in 1..(Len(axes[k]) - 1) : axes[k][i] < axes[k][i + 1]

Lerp(w, lo, hi) == fadd(fmul(fsub(Q, w), lo), fmul(w, hi))

\* The stored values of the located cell collapsed along axes k..ndim, the
\* last-declared axis first: every operand of the interpolation along axis k
\* is already collapsed along the axes declared after k.
RECURSIVE CollapsedFrom(_, _)
CollapsedFrom(k, s) ==
    IF k > ndim THEN rd(values, s)
    ELSE Lerp(Loc(k).w, CollapsedFrom(k + 1, s),
                        CollapsedFrom(k + 1, s + strides[k]))

\* The offset of the located cell: sum_k i_k * stride_k.
RECURSIVE CellBase(_)
CellBase(k) == IF k = 0 THEN 0 ELSE Loc(k).i * strides[k] + CellBase(k - 1)

\* C23: in the blends of ranks 2..5 the linear interpolations are applied axis
\* by axis from the last-declared (stride-1) axis to the first-declared one:
\* the result is, rounding included, the value obtained by collapsing the
\* cell in that order.
C23_FastestAxisFirst ==
    (/\ Queried /\ ndim >= 2 /\ TwoOrMore
     /\ \A k \in 1..ndim : InCell(k))
    => result = CollapsedFrom(1, CellBase(ndim))

\* A rank-5 query k sevenths of the way into the first cell of axis k, on
\* values that are not multilinear: the intermediate results are rounded.
C23_Witness ==
    /\ Queried /\ ndim = 5 /\ Shaped /\ arr.pat = 2
    /\ x = [k \in 1..5 |-> Sevenths(axes[k], k)]
    /\ \A k \in 1..ndim : InCell(k) /\ ~Dyadic(Loc(k).w)
    /\ x_len = 3 /\ v_len = 3
    /\ isfinite(result) /\ result < OOB

\* C24: the interpolator reads axes and values only from its own buffer made
\* during construction (the axis slices followed by the flattened values, the
\* slices disjoint and together covering the buffer); writing to the caller's
\* axis or value arrays after construction changes no field of the
\* interpolator and no later interp result.
C24_OwnsBuffer ==
    Built =>
        LET o == init(axes, arr, DefaultTol, "ndarray")
            v == heap.views
        IN  /\ \A k \in 1..(ndim + 1) : v[k].buf = "data"
            /\ v[1].start = 0
            /\ \A k \in 1..ndim : v[k].start < v[k].stop /\ v[k].stop = v[k + 1].start
            /\ v[ndim + 1].stop = Len(heap.bufs["data"])
            /\ \A k \in 1..ndim : slices[k] = seen(heap, k)
            /\ values = seen(heap, ndim + 1)
            /\ _data = heap.bufs["data"]
            /\ ndim = o.ndim /\ lens = o.lens /\ strides = o.strides
            /\ slices = o.slices /\ values = o.values /\ _data = o.data
            /\ Queried => result = interp(o, x, 0)

\* The caller has overwritten a sample of its first axis, which the
\* interpolator keeps as its samples, and an element of its value array; a
\* query inside the grid has been answered since.
C24_Witness ==
    /\ Queried
    /\ heap.writes = MaxWrites
    /\ ~StoredUniform(1)
    /\ heap.bufs["ax1"] # axes[1]
    /\ heap.bufs["vals"] # flatten(arr)
    /\ \A k \in 1..ndim : InCell(k)
    /\ isfinite(result) /\ result < OOB

\* The stored values at the 2^N corners of the located cell.
CornerValues ==
    {rd(values, CellBase(ndim) + Dot(c, strides, ndim)) : c \in [1..ndim -> {0, 1}]}

\* C25: for an in-domain point every per-axis weight is in [0, 1], equal to 1
\* only at an exact axis maximum, and the value interp returns lies between
\* the minimum and the maximum of the 2^N corner values of the located cell.
C25_NoOvershoot ==
    (/\ Queried /\ TwoOrMore /\ Shaped
     /\ \A k \in 1..ndim : ~Outside(k))
    => /\ \A k \in 1..ndim :
             /\ InCell(k)
             /\ 0 <= Loc(k).w /\ Loc(k).w <= Q
             /\ Loc(k).w = Q => x[k] = Last(axes[k])
       /\ isfinite(result)
       /\ \A c \in CornerValues : isfinite(c)
       /\ \E c \in CornerValues : c <= result
       /\ \E c \in CornerValues : result <= c

\* The i-th query point of the array a: the i-th scalar of the flattened
\* array for rank 1, the i-th row otherwise.
PointOf(a, i) ==
    IF ndim = 1 THEN <<a.data[i]>>
    ELSE [k \in 1..ndim |-> a.data[(i - 1) * ndim + k]]

\* The number of query points in the array a.
PointCount(a) == IF ndim = 1 THEN Len(a.data) ELSE Len(a.data) \div ndim

\* C26: __call__ returns one result per query point in input order, element i
\* being the interp result of the i-th point (each scalar of the flattened
\* input for rank 1, each row for rank >= 2); an out-of-domain or non-finite
\* point gives NaN at its own position and leaves the other results as they
\* are when evaluated alone.
C26_CallElementwise ==
    calls[1].pc \in {"loop", "return", "returned"} =>
        LET c == calls[1]
            done == IF c.pc = "loop" THEN c.n - 1 ELSE PointCount(c.arg)
            returned == IF ndim = 1 \/ PointCount(c.arg) > 1 THEN result ELSE <<result>>
        IN  /\ Len(c.out) = PointCount(c.arg)
            /\ \A i \in 1..done : c.out[i] = interp(self, PointOf(c.arg, i), 0)
            /\ \A i \in 1..done :
                  (~isfinite(PointOf(c.arg, i)[1])
                   \/ PointOf(c.arg, i)[1] > Last(axes[1])) => isnan(c.out[i])
            /\ c.pc = "returned" => returned = c.out

\* A rank-2 call with three rows has returned: the middle row is beyond the
\* first axis and the other two are inside the grid.
C26_Witness ==
    /\ calls[1].pc = "returned" /\ ndim = 2
    /\ calls[1].arg.shape = <<3, 2>>
    /\ Len(result) = 3
    /\ isnan(result[2])
    /\ isfinite(result[1]) /\ result[1] < OOB
    /\ isfinite(result[3]) /\ result[3] < OOB
    /\ result[1] # result[3]

\* C27: uniform_lpdf(x, xmin, xmax) returns -log(xmax - xmin) exactly when
\* xmin < x < xmax strictly, and -infinity in every other case: x on either
\* bound, x not a number, or xmax <= xmin.
C27_UniformDensity ==
    chain.fn = "uniform_lpdf" =>
        LET px == chain.args[1]
            xmin == chain.args[2]
            xmax == chain.args[3]
        IN  IF ~isnan(px) /\ xmin < px /\ px < xmax
            THEN chain.ret = fneg(log(xmax - xmin)) /\ isfinite(chain.ret)
            ELSE chain.ret = -INFINITY

\* uniform_lpdf was called strictly inside the interval [0, 2].
C27_Witness ==
    /\ chain.fn = "uniform_lpdf" /\ chain.p = UNSET /\ chain.n = 0
    /\ chain.args = <<Num(1, 2), 0, 2 * Q>>
    /\ chain.ret < 0 /\ isfinite(chain.ret)

\* C28 as the specification states it: for xmin < xmax, uniform_ppf maps p = 0
\* to xmin and p = 1 to xmax and is strictly increasing in p, so that the
\* uniform_lpdf of uniform_ppf(p, ..) is finite for 0 < p < 1 and -infinity
\* for p = 0 and p = 1.
C28_AsStated ==
    (chain.p # UNSET /\ chain.args[2] < chain.args[3]) =>
        LET xmin == chain.args[2]
            xmax == chain.args[3]
        IN  /\ chain.p = 0 => chain.args[1] = xmin
            /\ chain.p = Q => chain.args[1] = xmax
            /\ \A q \in DrawPs : q < chain.p => uniform_ppf(q, xmin, xmax) < chain.args[1]
            /\ (0 < chain.p /\ chain.p < Q) => isfinite(chain.ret)
            /\ chain.p \in {0, Q} => chain.ret = -INFINITY

\* C28: for xmin < xmax, uniform_ppf maps p = 0 to xmin and never decreases
\* with p; the uniform_lpdf of its value is -log(xmax - xmin) exactly when the
\* value lies strictly between the bounds and -infinity otherwise, as it is
\* at p = 0 and whenever rounding puts the value of a p in (0, 1) on a bound.
C28_RoundTrip ==
    (chain.p # UNSET /\ chain.args[2] < chain.args[3]) =>
        LET xmin == chain.args[2]
            xmax == chain.args[3]
            v == chain.args[1]
        IN  /\ chain.p = 0 => v = xmin
            /\ \A q \in DrawPs : q < chain.p => uniform_ppf(q, xmin, xmax) <= v
            /\ chain.ret = (IF xmin < v /\ v < xmax THEN fneg(log(xmax - xmin))
                            ELSE -INFINITY)
            /\ chain.p = 0 => chain.ret = -INFINITY

\* The draw next to zero on the interval [0, 1/2] was rounded onto xmin, and
\* its log prior is -infinity.
C28_Witness ==
    /\ chain.p = 1 /\ chain.args = <<0, 0, Num(1, 2)>>
    /\ chain.ret = -INFINITY

====
